---------------------------- MODULE Spec2Model ----------------------------
(***************************************************************************)
(* Model of papirus_icon_manager.py (class PapirusIconManager).            *)
(*                                                                         *)
(* Strings are TLA+ strings handled character by character (Len, \o and    *)
(* SubSeq), so that substring tests, extension stripping and case folding  *)
(* are computed the way the Python code computes them.  The file system is *)
(* a set of existing paths (icon files and directories) plus a map from    *)
(* descriptor-file paths to parsed-file contents.                          *)
(***************************************************************************)
EXTENDS Integers, Sequences, FiniteSets, TLC

VARIABLES
    GTK_AVAILABLE,   \* module-level flag set by the gi import
    fsPaths,         \* paths for which os.path.exists is true (icons, dirs)
    gtkTheme,        \* Gtk.IconTheme.lookup_icon: icon base name -> file or None
    papirus_paths,   \* self.papirus_paths
    files,           \* descriptor-file path -> lines of the file (if it exists)
    writable,        \* paths for which os.access(path, os.W_OK) is true
    op,              \* the operation that ran last
    arg,             \* its argument
    ret,             \* its return value
    scan,            \* locals of scan_all_applications and the printed summary
    fix,             \* locals of apply_fixes
    runs             \* number of times the program was started

vars == <<GTK_AVAILABLE, fsPaths, gtkTheme, papirus_paths, files, writable,
          op, arg, ret, scan, fix, runs>>

system == <<GTK_AVAILABLE, gtkTheme, papirus_paths>>
disk == <<fsPaths, files, writable>>

None == "<None>"

-----------------------------------------------------------------------------
(* Python str and os.path primitives                                       *)

Char(s, i) == SubSeq(s, i, i)

\* needle in hay
Contains(hay, needle) ==
    \E i \in 0..(Len(hay) - Len(needle)) : SubSeq(hay, i + 1, i + Len(needle)) = needle

startswith(s, p) == Len(p) <= Len(s) /\ SubSeq(s, 1, Len(p)) = p

endswith(s, p) == Len(p) <= Len(s) /\ SubSeq(s, Len(s) - Len(p) + 1, Len(s)) = p

\* s.rfind(c), 1-based, 0 when absent
rfind(s, c) ==
    LET hits == {i \in 1..Len(s) : Char(s, i) = c}
    IN  IF hits = {} THEN 0 ELSE CHOOSE i \in hits : \A j \in hits : j <= i

LowerChar(c) ==
    CASE c = "A" -> "a" [] c = "B" -> "b" [] c = "C" -> "c" [] c = "D" -> "d"
      [] c = "E" -> "e" [] c = "F" -> "f" [] c = "G" -> "g" [] c = "H" -> "h"
      [] c = "I" -> "i" [] c = "J" -> "j" [] c = "K" -> "k" [] c = "L" -> "l"
      [] c = "M" -> "m" [] c = "N" -> "n" [] c = "O" -> "o" [] c = "P" -> "p"
      [] c = "Q" -> "q" [] c = "R" -> "r" [] c = "S" -> "s" [] c = "T" -> "t"
      [] c = "U" -> "u" [] c = "V" -> "v" [] c = "W" -> "w" [] c = "X" -> "x"
      [] c = "Y" -> "y" [] c = "Z" -> "z" [] OTHER -> c

RECURSIVE lower(_)
lower(s) == IF Len(s) = 0 THEN s
            ELSE LowerChar(Char(s, 1)) \o lower(SubSeq(s, 2, Len(s)))

\* s.replace(a, b) for one-character a and b
RECURSIVE replace(_, _, _)
replace(s, a, b) ==
    IF Len(s) = 0 THEN s
    ELSE (IF Char(s, 1) = a THEN b ELSE Char(s, 1)) \o replace(SubSeq(s, 2, Len(s)), a, b)

\* os.path.splitext(p)[0]: cut at the last dot of the last path component,
\* unless that component has only dots before it
splitext(p) ==
    LET sepIndex == rfind(p, "/")
        dotIndex == rfind(p, ".")
    IN  IF dotIndex > sepIndex
           /\ \E k \in (sepIndex + 1)..(dotIndex - 1) : Char(p, k) # "."
        THEN SubSeq(p, 1, dotIndex - 1)
        ELSE p

\* os.path.basename(p)
basename(p) == SubSeq(p, rfind(p, "/") + 1, Len(p))

\* os.path.join(a, b)
join(a, b) ==
    IF startswith(b, "/") THEN b
    ELSE IF Len(a) = 0 \/ endswith(a, "/") THEN a \o b
    ELSE a \o "/" \o b

\* list(dict.fromkeys(s))
RECURSIVE dedup(_)
dedup(s) ==
    IF s = <<>> THEN <<>>
    ELSE LET front == dedup(SubSeq(s, 1, Len(s) - 1))
             last  == s[Len(s)]
         IN  IF \E i \in 1..Len(front) : front[i] = last THEN front
             ELSE Append(front, last)

-----------------------------------------------------------------------------
(* _find_papirus_paths                                                     *)

HOME == "/home/u"

possible_paths == <<
    "/usr/share/icons/Papirus",
    "/usr/share/icons/Papirus-Dark",
    "/usr/share/icons/Papirus-Light",
    "/usr/share/icons/ePapirus",
    "/usr/share/icons/ePapirus-Dark",
    HOME \o "/.icons/Papirus",
    HOME \o "/.icons/Papirus-Dark",
    HOME \o "/.icons/Papirus-Light",
    HOME \o "/.local/share/icons/Papirus",
    HOME \o "/.local/share/icons/Papirus-Dark",
    HOME \o "/.local/share/icons/Papirus-Light" >>

_find_papirus_paths(existing) == SelectSeq(possible_paths, LAMBDA p : p \in existing)

-----------------------------------------------------------------------------
(* _find_papirus_icon                                                      *)

sizes == <<"scalable", "64x64", "48x48", "32x32", "24x24", "22x22", "16x16">>
categories == <<"apps", "mimetypes", "actions", "devices", "places", "status", "categories">>
extensions == <<".svg", ".png">>

potential_path(papirus_path, size, category, icon_base, ext) ==
    join(join(join(papirus_path, size), category), icon_base \o ext)

\* a loop nest with the size bucket outermost and the installation innermost
LoopBefore_SizeFirst(a, b) ==
    \/ a[2] < b[2]
    \/ a[2] = b[2] /\ a[3] < b[3]
    \/ a[2] = b[2] /\ a[3] = b[3] /\ a[4] < b[4]
    \/ a[2] = b[2] /\ a[3] = b[3] /\ a[4] = b[4] /\ a[1] < b[1]

\* the loop nest of _find_papirus_icon visits index tuples in this order
LoopBefore(a, b) ==
    \/ a[1] < b[1]
    \/ a[1] = b[1] /\ a[2] < b[2]
    \/ a[1] = b[1] /\ a[2] = b[2] /\ a[3] < b[3]
    \/ a[1] = b[1] /\ a[2] = b[2] /\ a[3] = b[3] /\ a[4] < b[4]

ProbePath(paths, icon_base, t) ==
    potential_path(paths[t[1]], sizes[t[2]], categories[t[3]], icon_base, extensions[t[4]])

find_icon_base(icon_name) == splitext(icon_name)

FindIn(paths, existing, icon_name) ==
    IF icon_name = "" THEN None
    ELSE LET icon_base == find_icon_base(icon_name)
             hits == {t \in (1..Len(paths)) \X (1..Len(sizes)) \X (1..Len(categories))
                                \X (1..Len(extensions)) :
                         ProbePath(paths, icon_base, t) \in existing}
         IN  IF hits = {} THEN None
             ELSE ProbePath(paths, icon_base,
                            CHOOSE t \in hits : \A u \in hits : u = t \/ LoopBefore(t, u))

_find_papirus_icon(icon_name) == FindIn(papirus_paths, fsPaths, icon_name)

-----------------------------------------------------------------------------
(* configparser: a descriptor file is a sequence of lines, each a section  *)
(* header, a key/value line, a comment or a line that is neither           *)

SecLine(name)     == [k |-> "section", a |-> name, b |-> ""]
OptLine(key, val) == [k |-> "option", a |-> key, b |-> val]
ComLine(text)     == [k |-> "comment", a |-> text, b |-> ""]
BadLine(text)     == [k |-> "garbage", a |-> text, b |-> ""]

\* RawConfigParser.optionxform
optionxform(key) == lower(key)

HasSection(secs, name) == \E i \in 1..Len(secs) : secs[i].name = name

HasOption(opts, key) == \E i \in 1..Len(opts) : opts[i][1] = key

\* a configparser.Error raised while reading
ParseError == [err |-> TRUE, secs |-> <<>>]

\* RawConfigParser._read: sections and options in file order, keys passed
\* through optionxform; comments dropped; strict mode rejects duplicates
RECURSIVE ReadLines(_, _)
ReadLines(lines, secs) ==
    IF lines = <<>> THEN [err |-> FALSE, secs |-> secs]
    ELSE LET line == Head(lines)
             n    == Len(secs)
         IN  CASE line.k = "comment" -> ReadLines(Tail(lines), secs)
               [] line.k = "section" ->
                    IF HasSection(secs, line.a) THEN ParseError
                    ELSE ReadLines(Tail(lines),
                                   Append(secs, [name |-> line.a, opts |-> <<>>]))
               [] line.k = "option" ->
                    IF n = 0 THEN ParseError
                    ELSE IF HasOption(secs[n].opts, optionxform(line.a)) THEN ParseError
                    ELSE ReadLines(Tail(lines),
                                   [secs EXCEPT ![n].opts =
                                        Append(@, <<optionxform(line.a), line.b>>)])
               [] OTHER -> ParseError

\* ConfigParser.read(filepath): a file that cannot be opened is skipped
config_read(present, content) ==
    IF ~present THEN [err |-> FALSE, secs |-> <<>>] ELSE ReadLines(content, <<>>)

Section(secs, name) == secs[CHOOSE i \in 1..Len(secs) : secs[i].name = name]

\* SectionProxy.get(key, fallback) without interpolation
entry_get(opts, key, fallback) ==
    IF HasOption(opts, optionxform(key))
    THEN opts[CHOOSE i \in 1..Len(opts) : opts[i][1] = optionxform(key)][2]
    ELSE fallback

\* config[section][key] = value
entry_set(opts, key, value) ==
    IF HasOption(opts, optionxform(key))
    THEN [i \in 1..Len(opts) |->
             IF opts[i][1] = optionxform(key) THEN <<opts[i][1], value>> ELSE opts[i]]
    ELSE Append(opts, <<optionxform(key), value>>)

\* BasicInterpolation: a '%' must be followed by '%' or '('
RECURSIVE BadPercent(_)
BadPercent(v) ==
    IF Len(v) = 0 THEN FALSE
    ELSE IF Char(v, 1) # "%" THEN BadPercent(SubSeq(v, 2, Len(v)))
    ELSE IF Len(v) >= 2 /\ Char(v, 2) = "%" THEN BadPercent(SubSeq(v, 3, Len(v)))
    ELSE IF Len(v) >= 2 /\ Char(v, 2) = "(" THEN BadPercent(SubSeq(v, 3, Len(v)))
    ELSE TRUE

\* RawConfigParser.write: each section header followed by its options as stored
RECURSIVE SectionLines(_)
SectionLines(opts) ==
    IF opts = <<>> THEN <<>>
    ELSE <<OptLine(Head(opts)[1], Head(opts)[2])>> \o SectionLines(Tail(opts))

RECURSIVE config_write(_)
config_write(secs) ==
    IF secs = <<>> THEN <<>>
    ELSE <<SecLine(Head(secs).name)>> \o SectionLines(Head(secs).opts)
         \o config_write(Tail(secs))

-----------------------------------------------------------------------------
(* _get_package_type, _parse_desktop_file                                  *)

user_apps_dir == HOME \o "/.local/share/applications/"

_get_package_type(filepath) ==
    IF Contains(filepath, "/snap") THEN "SNAP"
    ELSE IF Contains(filepath, "/flatpak") THEN "FLATPAK"
    ELSE IF startswith(filepath, HOME) THEN "USER"
    ELSE "APT"

\* a parser that does not look at NoDisplay
_parse_desktop_file_ShowHidden(filepath, present, content) ==
    LET config == config_read(present, content)
    IN  IF config.err THEN <<>>
        ELSE IF ~HasSection(config.secs, "Desktop Entry") THEN <<>>
        ELSE LET entry == Section(config.secs, "Desktop Entry").opts
             IN  IF lower(entry_get(entry, "Type", "")) # "application" THEN <<>>
                 ELSE <<[name         |-> entry_get(entry, "Name", basename(filepath)),
                         icon         |-> entry_get(entry, "Icon", ""),
                         exec         |-> entry_get(entry, "Exec", ""),
                         categories   |-> entry_get(entry, "Categories", ""),
                         comment      |-> entry_get(entry, "Comment", ""),
                         file_path    |-> filepath,
                         package_type |-> _get_package_type(filepath)]>>

\* <<>> stands for None, <<app_info>> for a descriptor
_parse_desktop_file(filepath, present, content) ==
    LET config == config_read(present, content)
    IN  IF config.err THEN <<>>
        ELSE IF ~HasSection(config.secs, "Desktop Entry") THEN <<>>
        ELSE LET entry == Section(config.secs, "Desktop Entry").opts
             IN  IF lower(entry_get(entry, "Type", "")) # "application" THEN <<>>
                 ELSE IF lower(entry_get(entry, "NoDisplay", "")) = "true" THEN <<>>
                 ELSE <<[name         |-> entry_get(entry, "Name", basename(filepath)),
                         icon         |-> entry_get(entry, "Icon", ""),
                         exec         |-> entry_get(entry, "Exec", ""),
                         categories   |-> entry_get(entry, "Categories", ""),
                         comment      |-> entry_get(entry, "Comment", ""),
                         file_path    |-> filepath,
                         package_type |-> _get_package_type(filepath)]>>

-----------------------------------------------------------------------------
(* _resolve_icon_path, _is_papirus_icon                                    *)

resolve_icon_base(icon_name) ==
    IF \E e \in {".png", ".svg", ".xpm", ".ico"} : endswith(icon_name, e)
    THEN splitext(icon_name)
    ELSE icon_name

\* lookup stands for self.icon_theme.lookup_icon(icon_base, 48, 0)
ResolveWith(gtk, existing, lookup, icon_name) ==
    IF ~gtk \/ icon_name = "" THEN None
    ELSE IF startswith(icon_name, "/") /\ icon_name \in existing THEN icon_name
    ELSE lookup[resolve_icon_base(icon_name)]

_resolve_icon_path(icon_name) == ResolveWith(GTK_AVAILABLE, fsPaths, gtkTheme, icon_name)

papirus_indicators ==
    <<"/Papirus/", "/Papirus-Dark/", "/Papirus-Light/", "/ePapirus/", "/ePapirus-Dark/">>

\* a classifier that accepts only files below a located installation
IsPapirusIn_Under(paths, icon_path) ==
    IF icon_path = None THEN FALSE
    ELSE \/ \E i \in 1..Len(paths) : startswith(icon_path, paths[i] \o "/")
         \/ \E i \in 1..Len(papirus_indicators) : Contains(icon_path, papirus_indicators[i])

IsPapirusIn(paths, icon_path) ==
    IF icon_path = None THEN FALSE
    ELSE \/ \E i \in 1..Len(paths) : Contains(icon_path, paths[i])
         \/ \E i \in 1..Len(papirus_indicators) : Contains(icon_path, papirus_indicators[i])

_is_papirus_icon(icon_path) == IsPapirusIn(papirus_paths, icon_path)

-----------------------------------------------------------------------------
(* _detect_app_type, _suggest_papirus_alternatives                         *)

generic_icon_mapping(t) ==
    CASE t = "browser"     -> <<"web-browser", "applications-internet", "internet-web-browser">>
      [] t = "editor"      -> <<"text-editor", "accessories-text-editor", "applications-development">>
      [] t = "media"       -> <<"multimedia-player", "applications-multimedia", "media-player">>
      [] t = "system"      -> <<"applications-system", "preferences-system", "system-software-update">>
      [] t = "terminal"    -> <<"utilities-terminal", "terminal", "applications-utilities">>
      [] t = "files"       -> <<"file-manager", "folder", "applications-accessories">>
      [] t = "office"      -> <<"applications-office", "office-writer", "text-x-generic">>
      [] t = "graphics"    -> <<"applications-graphics", "image-x-generic", "graphics-viewer">>
      [] t = "network"     -> <<"applications-internet", "network-workgroup", "applications-system">>
      [] t = "development" -> <<"applications-development", "text-editor", "utilities-terminal">>
      [] t = "game"        -> <<"applications-games", "input-gaming", "applications-other">>
      [] t = "audio"       -> <<"applications-multimedia", "audio-x-generic", "multimedia-player">>
      [] t = "video"       -> <<"applications-multimedia", "video-x-generic", "multimedia-player">>

app_type_patterns == <<
    <<"browser",     {"browser", "firefox", "chrome", "chromium", "web", "safari", "opera"}>>,
    <<"editor",      {"editor", "vim", "nano", "code", "atom", "vscode", "sublime", "gedit"}>>,
    <<"media",       {"player", "vlc", "mpv", "music", "video", "audio", "spotify", "media"}>>,
    <<"system",      {"settings", "control", "monitor", "disk", "system", "update", "upgrade"}>>,
    <<"terminal",    {"terminal", "console", "shell", "bash", "cmd"}>>,
    <<"files",       {"files", "nautilus", "dolphin", "thunar", "manager", "explorer"}>>,
    <<"office",      {"writer", "calc", "word", "excel", "document", "office", "libreoffice"}>>,
    <<"graphics",    {"gimp", "image", "photo", "graphics", "paint", "inkscape", "krita"}>>,
    <<"network",     {"network", "wifi", "ethernet", "connection", "vpn"}>>,
    <<"development", {"develop", "ide", "compiler", "debug", "git"}>>,
    <<"game",        {"game", "steam", "play", "gaming"}>>,
    <<"audio",       {"audio", "sound", "music", "podcast", "radio"}>>,
    <<"video",       {"video", "movie", "film", "stream", "youtube"}>> >>

category_mapping == <<
    <<"webbrowser", "browser">>, <<"texteditor", "editor">>, <<"audioplayer", "audio">>,
    <<"videoplayer", "video">>, <<"graphics", "graphics">>, <<"office", "office">>,
    <<"development", "development">>, <<"system", "system">>, <<"network", "network">>,
    <<"game", "game">>, <<"consoleonly", "terminal">> >>

\* [f(x) for x in s if P(x)] for the two passes of _detect_app_type
RECURSIVE ByCategory(_, _)
ByCategory(mapping, cats) ==
    IF mapping = <<>> THEN <<>>
    ELSE (IF Contains(cats, Head(mapping)[1]) THEN <<Head(mapping)[2]>> ELSE <<>>)
         \o ByCategory(Tail(mapping), cats)

RECURSIVE ByKeyword(_, _)
ByKeyword(patterns, text) ==
    IF patterns = <<>> THEN <<>>
    ELSE (IF \E kw \in Head(patterns)[2] : Contains(text, kw)
          THEN <<Head(patterns)[1]>> ELSE <<>>)
         \o ByKeyword(Tail(patterns), text)

\* a detection that looks at the keywords before the categories
_detect_app_type_KeywordsFirst(app_info) ==
    LET cats == lower(app_info.categories)
        text_to_check == lower(app_info.name \o " " \o app_info.comment \o " " \o app_info.exec)
    IN  dedup(ByKeyword(app_type_patterns, text_to_check) \o ByCategory(category_mapping, cats))

_detect_app_type(app_info) ==
    LET cats == lower(app_info.categories)
        text_to_check == lower(app_info.name \o " " \o app_info.comment \o " " \o app_info.exec)
    IN  dedup(ByCategory(category_mapping, cats) \o ByKeyword(app_type_patterns, text_to_check))

variations(icon_name) ==
    LET icon_base == splitext(icon_name)
        app_name  == SubSeq(icon_base, rfind(icon_base, ".") + 1, Len(icon_base))
    IN  << icon_base,
           lower(icon_base),
           replace(icon_base, "-", "_"),
           replace(icon_base, "_", "-"),
           replace(icon_base, " ", "-"),
           replace(icon_base, " ", "_") >>
        \o (IF Contains(icon_base, ".")
            THEN << app_name,
                    lower(app_name),
                    "utilities-" \o app_name,
                    "applications-" \o app_name,
                    app_name \o "-icon" >>
            ELSE <<>>)

RECURSIVE GenericIcons(_)
GenericIcons(app_types) ==
    IF app_types = <<>> THEN <<>>
    ELSE SelectSeq(generic_icon_mapping(Head(app_types)),
                   LAMBDA g : _find_papirus_icon(g) # None)
         \o GenericIcons(Tail(app_types))

_suggest_papirus_alternatives(app_info) ==
    LET icon_name == app_info.icon
    IN  IF _find_papirus_icon(icon_name) # None THEN <<icon_name>>
        ELSE LET direct == SelectSeq(variations(icon_name),
                                     LAMBDA v : _find_papirus_icon(v) # None)
             IN  IF direct # <<>> THEN dedup(direct)
                 ELSE dedup(GenericIcons(_detect_app_type(app_info)))

-----------------------------------------------------------------------------
(* Bounds of the icon-lookup checks                                        *)

MaxIconFiles == 2

InstA == possible_paths[1]
InstB == possible_paths[2]

ThemeDirs == {InstA, InstB}

FindNames == {"firefox", "org.foo.BarApp", "My_App", ""}

ThemeFileNames == {"firefox.svg", "firefox.png", "org.foo.svg", "My-App.svg"}

ThemeFiles(dirs) ==
    {potential_path(d, sz, c, n, "") :
        d \in dirs, sz \in {"scalable", "16x16"}, c \in {"apps", "mimetypes"},
        n \in ThemeFileNames}

\* the subsets of S with at most n elements
RECURSIVE SmallSubsets(_, _)
SmallSubsets(S, n) ==
    IF n = 0 THEN {{}}
    ELSE LET P == SmallSubsets(S, n - 1) IN P \cup {T \cup {x} : T \in P, x \in S}

NoScan == [pc |-> "idle"]
NoFix == [pc |-> "idle"]
NoArg == [file_path |-> ""]

SampleApp(icon) ==
    [name |-> "App", icon |-> icon, exec |-> "app", categories |-> "", comment |-> "",
     file_path |-> "/usr/share/applications/app.desktop", package_type |-> "APT"]

-----------------------------------------------------------------------------
(* Icon lookup in the theme: _find_papirus_icon and                        *)
(* _suggest_papirus_alternatives applied to bounded inputs                 *)

InitFind ==
    /\ GTK_AVAILABLE = TRUE
    /\ \E dirs \in (SUBSET ThemeDirs) \ {{}} :
         \E icons \in SmallSubsets(ThemeFiles(dirs), MaxIconFiles) :
            /\ fsPaths = dirs \cup icons
            /\ papirus_paths = _find_papirus_paths(dirs)
    /\ gtkTheme = <<>>
    /\ files = <<>>
    /\ writable = {}
    /\ op = "init"
    /\ arg = ""
    /\ ret = ""
    /\ scan = NoScan
    /\ fix = NoFix
    /\ runs = 1

Find ==
    \E c \in FindNames :
        /\ op = "init"
        /\ op' = "find"
        /\ arg' = c
        /\ ret' = _find_papirus_icon(c)
        /\ UNCHANGED <<system, disk, scan, fix, runs>>

Suggest ==
    \E c \in FindNames :
        /\ op = "init"
        /\ op' = "suggest"
        /\ arg' = c
        /\ ret' = _suggest_papirus_alternatives(SampleApp(c))
        /\ UNCHANGED <<system, disk, scan, fix, runs>>

NextFind == Find \/ Suggest

SpecFind == InitFind /\ [][NextFind]_vars

-----------------------------------------------------------------------------
(* Properties of the icon lookup                                           *)

ClaimedSizes == <<"scalable", "64x64", "48x48", "32x32", "24x24", "22x22", "16x16">>
ClaimedCategories == <<"apps", "mimetypes", "actions", "devices", "places", "status",
                       "categories">>
ClaimedExtensions == <<".svg", ".png">>

\* <install>/<size>/<category>/<name><ext>
ThemeFile(inst, s, c, name, e) ==
    inst \o "/" \o ClaimedSizes[s] \o "/" \o ClaimedCategories[c] \o "/" \o name
         \o ClaimedExtensions[e]

Places == (1..Len(papirus_paths)) \X (1..7) \X (1..7) \X (1..2)

PlaceFile(name, t) == ThemeFile(papirus_paths[t[1]], t[2], t[3], name, t[4])

\* position of a (size, category, extension) triple in the claimed priority order
Priority(t) == (t[2] * 7 + t[3]) * 2 + t[4]

\* position in the order installation, size, category, extension
NestedPriority(t) == ((t[1] * 7 + t[2]) * 7 + t[3]) * 2 + t[4]

\* the name whose files the probe tests: the candidate without its last dot suffix
ProbedName(c) ==
    IF \E i \in 2..Len(c) : Char(c, i) = "." /\ \A j \in (i + 1)..Len(c) : Char(c, j) # "."
    THEN SubSeq(c, 1, (CHOOSE i \in 2..Len(c) :
                          Char(c, i) = "." /\ \A j \in (i + 1)..Len(c) : Char(c, j) # ".") - 1)
    ELSE c

\* C4 as stated: the file returned by find_in_theme has the best size bucket,
\* category and extension among all existing files of the candidate, in
\* whichever located installation they are.
C4_BestAcrossInstallations ==
    op = "find" /\ ret # None =>
        \A t \in Places, u \in Places :
            ret = PlaceFile(ProbedName(arg), t) /\ PlaceFile(ProbedName(arg), u) \in fsPaths
                => Priority(t) <= Priority(u)

\* C4 amended: the file returned by find_in_theme is the first existing probed
\* file in the nested order installation, then size bucket, then category,
\* then extension; and it returns none only if no probed file exists.
C4_FirstInNestedOrder ==
    op = "find" /\ arg # "" =>
        /\ ret # None =>
              \E t \in Places :
                  /\ ret = PlaceFile(ProbedName(arg), t)
                  /\ ret \in fsPaths
                  /\ \A u \in Places : PlaceFile(ProbedName(arg), u) \in fsPaths
                         => NestedPriority(t) <= NestedPriority(u)
        /\ ret = None => \A u \in Places : PlaceFile(ProbedName(arg), u) \notin fsPaths

\* a later installation holds a better size bucket than the returned file
C4_Witness ==
    /\ op = "find" /\ ret # None
    /\ \E t \in Places, u \in Places :
          /\ ret = PlaceFile(ProbedName(arg), t)
          /\ PlaceFile(ProbedName(arg), u) \in fsPaths
          /\ u[1] > t[1] /\ u[2] < t[2]

\* C5: find_in_theme(c) returns a path iff a file <install>/<size>/<category>/c.<ext>
\* exists, the returned file is named c.<ext>, and every name suggest returns is
\* the name of an existing theme icon file.
C5_ProbesCandidateName ==
    /\ op = "find" =>
          /\ ret # None <=> \E t \in Places : PlaceFile(arg, t) \in fsPaths
          /\ ret # None => \E e \in 1..2 : basename(ret) = arg \o ClaimedExtensions[e]
    /\ op = "suggest" =>
          \A i \in 1..Len(ret) : \E t \in Places : PlaceFile(ret[i], t) \in fsPaths

-----------------------------------------------------------------------------
(* Icon resolution: _resolve_icon_path applied to bounded inputs           *)

ResolveNames == {"", "firefox", "org.example.CoolApp.svg", "/opt/app/icon.png"}

LookupResults == {None,
                  "/usr/share/icons/hicolor/48x48/apps/app.png",
                  "/usr/share/icons/Papirus/48x48/apps/app.svg"}

LookupsOver(names) == [{resolve_icon_base(n) : n \in names} -> LookupResults]

InitResolve ==
    /\ GTK_AVAILABLE \in BOOLEAN
    /\ \E dirs \in SUBSET ThemeDirs, other \in SUBSET {"/opt/app/icon.png"} :
            /\ fsPaths = dirs \cup other
            /\ papirus_paths = _find_papirus_paths(dirs)
    /\ gtkTheme \in LookupsOver(ResolveNames)
    /\ files = <<>>
    /\ writable = {}
    /\ op = "init"
    /\ arg = ""
    /\ ret = ""
    /\ scan = NoScan
    /\ fix = NoFix
    /\ runs = 1

Resolve ==
    \E n \in ResolveNames :
        /\ op = "init"
        /\ op' = "resolve"
        /\ arg' = n
        /\ ret' = _resolve_icon_path(n)
        /\ UNCHANGED <<system, disk, scan, fix, runs>>

NextResolve == Resolve

SpecResolve == InitResolve /\ [][NextResolve]_vars

\* C8: an icon name that is an absolute path existing on disk resolves to that
\* same path, whether or not the icon-lookup capability is available.
C8_AbsolutePathResolvesToItself ==
    op = "resolve" /\ arg # "" /\ startswith(arg, "/") /\ arg \in fsPaths => ret = arg

-----------------------------------------------------------------------------
(* scan_all_applications and _print_summary                                *)

desktop_dirs == <<
    "/usr/share/applications/",
    "/usr/local/share/applications/",
    "/var/lib/flatpak/exports/share/applications/",
    HOME \o "/.local/share/flatpak/exports/share/applications/",
    "/var/lib/snapd/desktop/applications/",
    HOME \o "/.local/share/applications/" >>

\* f is matched by glob.glob(os.path.join(desktop_dir, "*.desktop"))
InGlob(f, desktop_dir) ==
    /\ startswith(f, desktop_dir)
    /\ endswith(f, ".desktop")
    /\ LET name == SubSeq(f, Len(desktop_dir) + 1, Len(f))
       IN  ~Contains(name, "/") /\ ~startswith(name, ".")

DirIndex(f) ==
    CHOOSE i \in 1..Len(desktop_dirs) :
        /\ InGlob(f, desktop_dirs[i])
        /\ \A j \in 1..(i - 1) : ~InGlob(f, desktop_dirs[j])

Globbed ==
    {f \in fsPaths : \E i \in 1..Len(desktop_dirs) :
                        desktop_dirs[i] \in fsPaths /\ InGlob(f, desktop_dirs[i])}

\* f"{percentage:.1f}" as a number of tenths: nearest tenth, ties to even
Tenths(matching, total) ==
    LET q == (1000 * matching) \div total
        r == (1000 * matching) % total
    IN  IF 2 * r > total THEN q + 1
        ELSE IF 2 * r = total THEN q + (q % 2)
        ELSE q

\* the lines _print_summary prints: the three counts, and the coverage line
\* (as tenths of a percent) when there is one
_print_summary(total_apps, papirus_apps, non_papirus_apps) ==
    [total     |-> total_apps,
     using     |-> Len(papirus_apps),
     not_using |-> Len(non_papirus_apps),
     coverage  |-> IF total_apps > 0 THEN <<Tenths(Len(papirus_apps), total_apps)>>
                   ELSE <<>>]

ScanStart ==
    /\ scan.pc = "idle"
    /\ scan' = IF papirus_paths = <<>>
               THEN [pc |-> "aborted"]
               ELSE [pc |-> "scanning", seen |-> {}, total_apps |-> 0,
                     papirus_apps |-> <<>>, non_papirus_apps |-> <<>>]
    /\ op' = "scan"
    /\ UNCHANGED <<system, disk, arg, ret, fix, runs>>

\* one iteration of the loop over the descriptor files of a directory
ScanFile ==
    /\ scan.pc = "scanning"
    /\ \E desktop_file \in Globbed \ scan.seen :
         /\ \A g \in Globbed \ scan.seen : DirIndex(desktop_file) <= DirIndex(g)
         /\ LET parsed == _parse_desktop_file(desktop_file, TRUE, files[desktop_file])
            IN  IF parsed = <<>>
                THEN scan' = [scan EXCEPT !.seen = @ \cup {desktop_file}]
                ELSE LET app_info  == parsed[1]
                         icon_path == _resolve_icon_path(app_info.icon)
                     IN  IF _is_papirus_icon(icon_path)
                         THEN scan' = [scan EXCEPT
                                  !.seen = @ \cup {desktop_file},
                                  !.total_apps = @ + 1,
                                  !.papirus_apps = Append(@,
                                      [app_info |-> app_info, resolved_path |-> icon_path])]
                         ELSE scan' = [scan EXCEPT
                                  !.seen = @ \cup {desktop_file},
                                  !.total_apps = @ + 1,
                                  !.non_papirus_apps = Append(@,
                                      [app_info |-> app_info, resolved_path |-> icon_path,
                                       papirus_alternatives |->
                                           _suggest_papirus_alternatives(app_info)])]
    /\ op' = "scan"
    /\ UNCHANGED <<system, disk, arg, ret, fix, runs>>

ScanFinish ==
    /\ scan.pc = "scanning"
    /\ Globbed \subseteq scan.seen
    /\ scan' = [pc |-> "done", seen |-> scan.seen, total_apps |-> scan.total_apps,
                papirus_apps |-> scan.papirus_apps,
                non_papirus_apps |-> scan.non_papirus_apps,
                summary |-> _print_summary(scan.total_apps, scan.papirus_apps,
                                           scan.non_papirus_apps)]
    /\ op' = "summary"
    /\ UNCHANGED <<system, disk, arg, ret, fix, runs>>

NextScan == ScanStart \/ ScanFile \/ ScanFinish

-----------------------------------------------------------------------------
(* apply_fixes and _update_desktop_file_icon                               *)

\* s.strip() for blanks
RECURSIVE strip(_)
strip(s) ==
    IF Len(s) = 0 THEN s
    ELSE IF Char(s, 1) = " " THEN strip(SubSeq(s, 2, Len(s)))
    ELSE IF Char(s, Len(s)) = " " THEN strip(SubSeq(s, 1, Len(s) - 1))
    ELSE s

\* the disk as one value; err is set when an exception was raised
Disk(paths, fls, w) == [paths |-> paths, files |-> fls, writable |-> w, err |-> FALSE]

Raise(d) == [d EXCEPT !.err = TRUE]

Put(fls, p, content) == [q \in DOMAIN fls \cup {p} |-> IF q = p THEN content ELSE fls[q]]

\* shutil.copy2(src, dst); fault is an I/O error of the environment
copy2(d, src, dst, fault) ==
    IF fault \/ src \notin d.paths \/ src = dst \/ (dst \in d.paths /\ dst \notin d.writable)
    THEN Raise(d)
    ELSE [d EXCEPT !.paths = @ \cup {dst},
                   !.files = Put(@, dst, d.files[src]),
                   !.writable = @ \cup {dst}]

\* os.makedirs(path, exist_ok=True)
makedirs(d, path, fault) ==
    IF path \in d.paths THEN d
    ELSE IF fault THEN Raise(d)
    ELSE [d EXCEPT !.paths = @ \cup {path}]

\* a fix that always works on the file in place
needs_sudo_Never(desktop_file_path, w) == FALSE

\* not os.access(desktop_file_path, os.W_OK)
needs_sudo(desktop_file_path, w) == desktop_file_path \notin w

\* a fix that makes a new backup on every run
NoBackupYet_Always(backup_path, existing) == TRUE

\* not os.path.exists(backup_path)
NoBackupYet(backup_path, existing) == backup_path \notin existing

IOFaults == {"none", "makedirs", "copy", "backup", "open"}

UpdateTarget(desktop_file_path, w) ==
    IF needs_sudo(desktop_file_path, w)
    THEN join(user_apps_dir, basename(desktop_file_path))
    ELSE desktop_file_path

\* the disk after _update_desktop_file_icon, with its return value in ok
_update_desktop_file_icon(d0, desktop_file_path, new_icon_name, io) ==
    LET sudo        == needs_sudo(desktop_file_path, d0.writable)
        target      == UpdateTarget(desktop_file_path, d0.writable)
        backup_path == target \o ".backup"
        d1 == IF ~sudo THEN d0
              ELSE LET made == makedirs(d0, user_apps_dir, io = "makedirs")
                   IN  IF made.err THEN made
                       ELSE copy2(made, desktop_file_path, target, io = "copy")
        d2 == IF d1.err \/ ~NoBackupYet(backup_path, d1.paths) THEN d1
              ELSE copy2(d1, target, backup_path, io = "backup")
        config == config_read(target \in d2.paths,
                              IF target \in d2.paths THEN d2.files[target] ELSE <<>>)
        n == CHOOSE k \in 1..Len(config.secs) : config.secs[k].name = "Desktop Entry"
    IN  IF d2.err THEN [disk |-> d2, ok |-> FALSE]
        ELSE IF config.err THEN [disk |-> Raise(d2), ok |-> FALSE]
        ELSE IF ~HasSection(config.secs, "Desktop Entry") THEN [disk |-> d2, ok |-> FALSE]
        ELSE IF \/ BadPercent(entry_get(config.secs[n].opts, "Icon", ""))
                \/ BadPercent(new_icon_name)
                \/ io = "open"
                \/ target \notin d2.writable
             THEN [disk |-> Raise(d2), ok |-> FALSE]
        ELSE [disk |-> [d2 EXCEPT !.files = Put(@, target,
                          config_write([config.secs EXCEPT ![n].opts =
                                           entry_set(@, "Icon", new_icon_name)]))],
              ok |-> TRUE]

\* a batch that counts only the entries it fixed
Outcome_FixedOnly(f, ok) ==
    IF ok THEN [f EXCEPT !.fixed_count = @ + 1] ELSE f

\* the counters after _update_desktop_file_icon returned ok
Outcome(f, ok) ==
    IF ok THEN [f EXCEPT !.fixed_count = @ + 1]
    ELSE [f EXCEPT !.failed_count = @ + 1]

Responses == {"y", "Yes ", ""}
Choices == {"y", "S ", ""}

\* apply_fixes up to the loop: the batch prompt
FixStart ==
    /\ scan.pc = "done" /\ fix.pc = "idle"
    /\ scan.non_papirus_apps # <<>>
    /\ \E auto_apply \in BOOLEAN, answer \in Responses :
         LET response == strip(lower(answer))
         IN  fix' = IF ~auto_apply /\ response \notin {"y", "yes"}
                    THEN [pc |-> "cancelled", auto_apply |-> auto_apply]
                    ELSE [pc |-> "loop", auto_apply |-> auto_apply, i |-> 1,
                          fixed_count |-> 0, failed_count |-> 0]
    /\ op' = "apply_fixes"
    /\ UNCHANGED <<system, disk, scan, arg, ret, runs>>

\* one iteration of the loop of apply_fixes
FixEntry ==
    /\ fix.pc = "loop" /\ fix.i <= Len(scan.non_papirus_apps)
    /\ \E answer \in Choices, io \in IOFaults :
         LET app_data     == scan.non_papirus_apps[fix.i]
             app_info     == app_data.app_info
             alternatives == app_data.papirus_alternatives
             choice       == strip(lower(answer))
         IN  IF alternatives = <<>>
             THEN /\ fix' = [fix EXCEPT !.i = @ + 1]
                  /\ op' = "no_alternative"
                  /\ arg' = [file_path |-> app_info.file_path]
                  /\ UNCHANGED <<disk, ret>>
             ELSE IF ~fix.auto_apply /\ choice \in {"n", "no", "s", "skip"}
             THEN /\ fix' = [fix EXCEPT !.i = @ + 1]
                  /\ op' = "skipped"
                  /\ arg' = [file_path |-> app_info.file_path]
                  /\ UNCHANGED <<disk, ret>>
             ELSE LET done == _update_desktop_file_icon(Disk(fsPaths, files, writable),
                                  app_info.file_path, alternatives[1], io)
                  IN  /\ fsPaths' = done.disk.paths
                      /\ files' = done.disk.files
                      /\ writable' = done.disk.writable
                      /\ fix' = [Outcome(fix, done.ok) EXCEPT !.i = @ + 1]
                      /\ op' = "update"
                      /\ arg' = [file_path |-> app_info.file_path,
                                 icon |-> alternatives[1],
                                 old_icon |-> app_info.icon,
                                 answer |-> IF fix.auto_apply THEN "--auto" ELSE choice]
                      /\ ret' = done.ok
    /\ UNCHANGED <<system, scan, runs>>

\* the loop is over: the results line
FixFinish ==
    /\ fix.pc = "loop" /\ fix.i > Len(scan.non_papirus_apps)
    /\ fix' = [fix EXCEPT !.pc = "done"]
    /\ op' = "results"
    /\ UNCHANGED <<system, disk, scan, arg, ret, runs>>

MaxRuns == 2

\* the program ends after a fix batch and is started again: main() builds a
\* new manager
Rerun ==
    /\ runs < MaxRuns
    /\ scan.pc = "done" /\ fix.pc = "done"
    /\ runs' = runs + 1
    /\ papirus_paths' = _find_papirus_paths(fsPaths)
    /\ scan' = [pc |-> "idle"]
    /\ fix' = [pc |-> "idle"]
    /\ op' = "main"
    /\ arg' = [file_path |-> ""]
    /\ ret' = FALSE
    /\ UNCHANGED <<GTK_AVAILABLE, gtkTheme, disk>>

NextFix == NextScan \/ FixStart \/ FixEntry \/ FixFinish \/ Rerun

-----------------------------------------------------------------------------
(* Package origin: _get_package_type applied to the descriptor files of    *)
(* the scanned directories and to the overrides the fix writes for them    *)

ScannedDirs ==
    {"/usr/share/applications/",
     "/usr/local/share/applications/",
     "/var/lib/flatpak/exports/share/applications/",
     HOME \o "/.local/share/flatpak/exports/share/applications/",
     "/var/lib/snapd/desktop/applications/",
     HOME \o "/.local/share/applications/"}

DescriptorNames ==
    {"a.desktop", "firefox.desktop", "vlc.desktop", "My App.desktop",
     "snap-store.desktop", "snapcraft.desktop", "org.gnome.Snapshot.desktop",
     "flatpak-builder.desktop", "org.flatpak.Builder.desktop"}

InitClassify ==
    /\ GTK_AVAILABLE = TRUE
    /\ fsPaths = {}
    /\ papirus_paths = <<>>
    /\ gtkTheme = <<>>
    /\ files = <<>>
    /\ writable = {}
    /\ op = "init"
    /\ arg \in {join(d, n) : d \in ScannedDirs, n \in DescriptorNames}
    /\ ret = ""
    /\ scan = NoScan
    /\ fix = NoFix
    /\ runs = 1

\* the package_type _parse_desktop_file records for the file
Classify ==
    /\ op \in {"init", "override"}
    /\ op' = "classify"
    /\ ret' = _get_package_type(arg)
    /\ UNCHANGED <<system, disk, arg, scan, fix, runs>>

\* the fix of a file that is not writable goes to the user's copy of it,
\* which the next scan finds
Override ==
    /\ op \in {"init", "classify"}
    /\ needs_sudo(arg, writable)
    /\ op' = "override"
    /\ arg' = UpdateTarget(arg, writable)
    /\ ret' = ""
    /\ UNCHANGED <<system, disk, scan, fix, runs>>

NextClassify == Classify \/ Override

SpecClassify == InitClassify /\ [][NextClassify]_vars

\* the directory part of a path has a component that starts with the word
HasSegment(path, word) ==
    LET dir == SubSeq(path, 1, rfind(path, "/")) IN Contains(dir, "/" \o word)

\* C12: a path with a snap segment is SNAP, else one with a flatpak segment is
\* FLATPAK, else one under the user's local applications directory is USER,
\* otherwise it is APT; a file directly inside the user's local applications
\* directory is USER whatever its file name.
C12_OriginBySegmentPrecedence ==
    op = "classify" =>
        ret = IF HasSegment(arg, "snap") THEN "SNAP"
              ELSE IF HasSegment(arg, "flatpak") THEN "FLATPAK"
              ELSE IF startswith(arg, user_apps_dir) THEN "USER"
              ELSE "APT"

-----------------------------------------------------------------------------
(* Bounds of the scan checks                                               *)

MaxDescFiles == 2

SysA  == "/usr/share/applications/a.desktop"
SysB  == "/usr/share/applications/b.desktop"
UserA == user_apps_dir \o "a.desktop"

DescPaths == {SysA, SysB, UserA}

BackupOf(p) == p \o ".backup"

DirOf(p) == SubSeq(p, 1, rfind(p, "/"))

Firefox == <<
    ComLine("# Mozilla Firefox"),
    SecLine("Desktop Entry"),
    OptLine("Type", "Application"),
    OptLine("Name", "Firefox"),
    OptLine("Icon", "firefox"),
    OptLine("Exec", "firefox %u"),
    OptLine("Categories", "Network;WebBrowser;"),
    SecLine("Desktop Action new-window"),
    OptLine("Name", "New Window"),
    OptLine("Exec", "firefox --new-window") >>

UpperType == <<
    SecLine("Desktop Entry"),
    OptLine("Type", "APPLICATION"),
    OptLine("NoDisplay", "false"),
    OptLine("Icon", "firefox") >>

NotApplication == <<
    SecLine("Desktop Entry"),
    OptLine("Type", "Link"),
    OptLine("Name", "Home page"),
    OptLine("Icon", "firefox") >>

TypeMissing == <<
    SecLine("Desktop Entry"),
    OptLine("Name", "No type"),
    OptLine("Icon", "firefox") >>

Hidden == <<
    SecLine("Desktop Entry"),
    OptLine("Type", "Application"),
    OptLine("Name", "Helper"),
    OptLine("NoDisplay", "True"),
    OptLine("Icon", "firefox") >>

NoEntrySection == <<
    SecLine("KDE Desktop Entry"),
    OptLine("Type", "Application"),
    OptLine("Icon", "firefox") >>

NoHeader == <<
    OptLine("Type", "Application"),
    SecLine("Desktop Entry"),
    OptLine("Icon", "firefox") >>

DuplicateKey == <<
    SecLine("Desktop Entry"),
    OptLine("Type", "Application"),
    OptLine("Icon", "firefox"),
    OptLine("Icon", "firefox-esr") >>

ScanContents == {Firefox, UpperType, NotApplication, TypeMissing, Hidden, NoEntrySection,
                 NoHeader, DuplicateKey}

ScanLookupResults == LookupResults \cup
    {"/usr/share/icons/Papirus-Adapta/48x48/apps/app.svg",
     "/opt/themes/ePapirus/48x48/apps/app.svg"}

\* the descriptor files of a system: at most n of the paths hold a file
RECURSIVE FileSystems(_, _, _)
FileSystems(paths, contents, n) ==
    IF n = 0 THEN {[p \in {} |-> <<>>]}
    ELSE LET smaller == FileSystems(paths, contents, n - 1)
         IN  smaller \cup
             {[q \in DOMAIN fs \cup {p} |-> IF q = p THEN c ELSE fs[q]] :
                 fs \in smaller, p \in paths, c \in contents}

ThemeIcons(dirs, names) == {potential_path(d, "scalable", "apps", n, "") : d \in dirs, n \in names}

InitScan ==
    /\ GTK_AVAILABLE \in BOOLEAN
    /\ \E dirs \in SUBSET {InstA}, fs \in FileSystems(DescPaths, ScanContents, MaxDescFiles) :
       \E icons \in SUBSET ThemeIcons(dirs, {"firefox.svg"}) :
         /\ fsPaths = dirs \cup icons \cup DOMAIN fs \cup {DirOf(p) : p \in DOMAIN fs}
         /\ papirus_paths = _find_papirus_paths(dirs)
         /\ files = fs
    /\ gtkTheme \in [{"firefox"} -> ScanLookupResults]
    /\ writable = {}
    /\ op = "init"
    /\ arg = ""
    /\ ret = ""
    /\ scan = NoScan
    /\ fix = NoFix
    /\ runs = 1

SpecScan == InitScan /\ [][NextScan]_vars

-----------------------------------------------------------------------------
(* Bounds of the fix checks                                                *)

MyApp == <<
    SecLine("Desktop Entry"),
    OptLine("Type", "Application"),
    OptLine("Name", "My App"),
    OptLine("Icon", "My_App"),
    OptLine("X-GNOME-UsesNotifications", "true"),
    SecLine("Desktop Action quit"),
    OptLine("Exec", "myapp --quit") >>

UserOwn == <<
    SecLine("Desktop Entry"),
    OptLine("Type", "Application"),
    OptLine("Name", "Mine"),
    OptLine("Icon", "mine"),
    OptLine("Exec", "mine --profile work") >>

LocalB == "/usr/local/share/applications/b.desktop"

\* the system-wide descriptor files of the systems the fix is run on
FixSystems ==
    {(SysA :> Firefox), (SysA :> MyApp), (SysA :> Firefox) @@ (LocalB :> MyApp)}

FixBases == {"firefox", "My_App", "My-App", "mine"}

FixLookups == {[b \in FixBases |-> "/usr/share/icons/hicolor/48x48/apps/app.png"]}

InitFix ==
    /\ GTK_AVAILABLE = TRUE
    /\ \E icons \in {ThemeIcons({InstA}, {"firefox.svg", "My-App.svg"})},
          sys \in FixSystems,
          own \in FileSystems({UserA}, {UserOwn}, 1) :
         /\ fsPaths = {InstA} \cup icons \cup DOMAIN sys \cup DOMAIN own
                        \cup {DirOf(p) : p \in DOMAIN sys \cup DOMAIN own}
         /\ papirus_paths = _find_papirus_paths({InstA})
         /\ files = [p \in DOMAIN sys \cup DOMAIN own |->
                        IF p \in DOMAIN sys THEN sys[p] ELSE own[p]]
         /\ writable \in SUBSET (DOMAIN sys \cup DOMAIN own)
    /\ gtkTheme \in FixLookups
    /\ op = "init"
    /\ arg = NoArg
    /\ ret = FALSE
    /\ scan = NoScan
    /\ fix = NoFix
    /\ runs = 1

SpecFix == InitFix /\ [][NextFix]_vars

-----------------------------------------------------------------------------
(* Generic suggestions: _detect_app_type and _suggest_papirus_alternatives *)
(* applied to descriptors with categories and keywords                     *)

MaxGenericFiles == 3

Descriptor(name, icon, exec, cats) ==
    [name |-> name, icon |-> icon, exec |-> exec, categories |-> cats, comment |-> "",
     file_path |-> "/usr/share/applications/app.desktop", package_type |-> "APT"]

CustomApp  == Descriptor("Custom", "custom-app-xyz", "custom", "Development;")
CodeStudio == Descriptor("Code Studio", "codestudio", "cstudio %F", "Development;TextEditor;")
WebArcade  == Descriptor("Web Arcade", "arcade", "arcade", "Game;")
Jukebox    == Descriptor("Music Player", "jukebox", "jukebox", "AudioVideo;Player;")
Plain      == Descriptor("Mine", "mine", "mine --profile work", "")
Renamed    == Descriptor("My App", "My_App", "myapp", "Development;")

SuggestApps == {CustomApp, CodeStudio, WebArcade, Jukebox, Plain, Renamed}

GenericFileNames ==
    {"applications-development.svg", "text-editor.svg", "utilities-terminal.svg",
     "accessories-text-editor.svg", "applications-games.svg", "web-browser.svg",
     "multimedia-player.svg", "applications-multimedia.svg", "My-App.svg"}

InitSuggest ==
    /\ GTK_AVAILABLE = TRUE
    /\ \E icons \in SmallSubsets(ThemeIcons({InstA}, GenericFileNames)
                                   \cup {InstA \o "/16x16/mimetypes/text-editor.png"},
                                 MaxGenericFiles) :
            /\ fsPaths = {InstA} \cup icons
            /\ papirus_paths = _find_papirus_paths({InstA})
    /\ gtkTheme = <<>>
    /\ files = <<>>
    /\ writable = {}
    /\ op = "init"
    /\ arg \in SuggestApps
    /\ ret = <<>>
    /\ scan = NoScan
    /\ fix = NoFix
    /\ runs = 1

DetectType ==
    /\ op = "init"
    /\ op' = "detect"
    /\ ret' = _detect_app_type(arg)
    /\ UNCHANGED <<system, disk, arg, scan, fix, runs>>

SuggestFor ==
    /\ op = "init"
    /\ op' = "suggest"
    /\ ret' = _suggest_papirus_alternatives(arg)
    /\ UNCHANGED <<system, disk, arg, scan, fix, runs>>

NextSuggest == DetectType \/ SuggestFor

SpecSuggest == InitSuggest /\ [][NextSuggest]_vars

-----------------------------------------------------------------------------
(* Properties of the scan                                                  *)

ScanDone == scan.pc = "done"

\* the file paths of the descriptors of a result list
PathsOf(apps) == {apps[i].app_info.file_path : i \in 1..Len(apps)}

NoDuplicates(apps) ==
    \A i \in 1..Len(apps), j \in 1..Len(apps) :
        apps[i].app_info.file_path = apps[j].app_info.file_path => i = j

FamilyMarkers == {"/Papirus/", "/Papirus-Dark/", "/Papirus-Light/", "/ePapirus/",
                  "/ePapirus-Dark/"}

HasMarker(path) == \E m \in FamilyMarkers : Contains(path, m)

LiesUnderInstallation(path) ==
    \E i \in 1..Len(papirus_paths) : startswith(path, papirus_paths[i] \o "/")

ContainsInstallation(path) ==
    \E i \in 1..Len(papirus_paths) : Contains(path, papirus_paths[i])

\* every descriptor the scan produced is in exactly one result list
Partitioned ==
    /\ PathsOf(scan.papirus_apps) \cap PathsOf(scan.non_papirus_apps) = {}
    /\ NoDuplicates(scan.papirus_apps) /\ NoDuplicates(scan.non_papirus_apps)
    /\ \A f \in Globbed :
          _parse_desktop_file(f, TRUE, files[f]) # <<>>
              => f \in PathsOf(scan.papirus_apps) \cup PathsOf(scan.non_papirus_apps)

\* C6 as stated: after a scan the two result sets partition the descriptors, a
\* descriptor is matching iff its resolved path lies under a located
\* installation directory or contains a family marker, and an unresolved icon
\* is non-matching.
C6_MatchingIffUnderInstallation ==
    ScanDone =>
        /\ Partitioned
        /\ \A i \in 1..Len(scan.papirus_apps) :
              LET p == scan.papirus_apps[i].resolved_path
              IN  p # None /\ (LiesUnderInstallation(p) \/ HasMarker(p))
        /\ \A i \in 1..Len(scan.non_papirus_apps) :
              LET p == scan.non_papirus_apps[i].resolved_path
              IN  p # None => ~(LiesUnderInstallation(p) \/ HasMarker(p))

\* C6 amended: after a scan the two result sets partition the descriptors, a
\* descriptor is matching iff its resolved path contains a located
\* installation path as a substring or contains a family marker, and an
\* unresolved icon is non-matching.
C6_MatchingIffContainsInstallation ==
    ScanDone =>
        /\ Partitioned
        /\ \A i \in 1..Len(scan.papirus_apps) :
              LET p == scan.papirus_apps[i].resolved_path
              IN  p # None /\ (ContainsInstallation(p) \/ HasMarker(p))
        /\ \A i \in 1..Len(scan.non_papirus_apps) :
              LET p == scan.non_papirus_apps[i].resolved_path
              IN  p # None => ~(ContainsInstallation(p) \/ HasMarker(p))

\* a matching descriptor whose icon file is beside, not below, the installation
C6_Witness ==
    /\ ScanDone
    /\ \E i \in 1..Len(scan.papirus_apps) :
          LET p == scan.papirus_apps[i].resolved_path
          IN  ContainsInstallation(p) /\ ~LiesUnderInstallation(p) /\ ~HasMarker(p)

\* the lines of the section called name: from its header to the next header
SectionSpan(lines, name) ==
    {i \in 1..Len(lines) :
        \E h \in 1..(i - 1) :
            /\ lines[h] = SecLine(name)
            /\ \A j \in (h + 1)..i : lines[j].k # "section"}

\* the value of a key of the Desktop Entry section, keys compared as the
\* parser compares them, or the default when the key is missing
FieldOf(lines, key, default) ==
    LET at == {i \in SectionSpan(lines, "Desktop Entry") :
                  lines[i].k = "option" /\ lower(lines[i].a) = lower(key)}
    IN  IF at = {} THEN default ELSE lines[CHOOSE i \in at : TRUE].b

Unparsable(lines) ==
    \/ \E i \in 1..Len(lines) : lines[i].k = "garbage"
    \/ \E i \in 1..Len(lines) :
          lines[i].k = "option" /\ \A h \in 1..(i - 1) : lines[h].k # "section"
    \/ \E i \in 1..Len(lines), j \in 1..Len(lines) :
          i < j /\ lines[i].k = "section" /\ lines[i] = lines[j]
    \/ \E i \in 1..Len(lines), j \in 1..Len(lines) :
          /\ i < j /\ lines[i].k = "option" /\ lines[j].k = "option"
          /\ lower(lines[i].a) = lower(lines[j].a)
          /\ \A m \in i..j : lines[m].k # "section"

NotAnApplication(lines) ==
    \/ Unparsable(lines)
    \/ \A i \in 1..Len(lines) : lines[i] # SecLine("Desktop Entry")
    \/ lower(FieldOf(lines, "Type", "")) # "application"
    \/ lower(FieldOf(lines, "NoDisplay", "")) = "true"

\* C7: a file without a Desktop Entry section, with a Type other than
\* application (or none), with NoDisplay true, or unparsable, yields no
\* descriptor and is not counted, and the scan goes on to the remaining files.
C7_RejectedFilesAreSkipped ==
    scan.pc \in {"scanning", "done"} =>
        /\ \A f \in scan.seen :
              NotAnApplication(files[f])
                  => f \notin PathsOf(scan.papirus_apps) \cup PathsOf(scan.non_papirus_apps)
        /\ scan.total_apps = Cardinality({f \in scan.seen : ~NotAnApplication(files[f])})
        /\ ScanDone => scan.seen = Globbed

\* a finished scan that rejected one file and counted another
C7_Witness ==
    /\ ScanDone
    /\ \E f \in scan.seen : NotAnApplication(files[f])
    /\ scan.total_apps >= 1

\* C10: the summary always holds a coverage percentage: matching / total * 100
\* to one decimal place when total > 0, and 0 when total is 0.
C10_CoverageAlwaysReported ==
    ScanDone =>
        /\ Len(scan.summary.coverage) = 1
        /\ scan.summary.total = 0 => scan.summary.coverage[1] = 0
        /\ scan.summary.total > 0 =>
              \* within half a tenth of the exact percentage
              LET d == 2 * (scan.summary.coverage[1] * scan.summary.total
                            - 1000 * scan.summary.using)
              IN  -scan.summary.total <= d /\ d <= scan.summary.total

-----------------------------------------------------------------------------
(* Properties of the fix step                                              *)

IsBackup(p) == endswith(p, ".backup")

OverrideOf(origin) == user_apps_dir \o basename(origin)

\* the file a fix of origin works on, given the writable files before the fix
TargetOf(origin, w) == IF origin \in w THEN origin ELSE OverrideOf(origin)

\* a step that ran _update_desktop_file_icon / one that returned True
Updated == op' = "update"
Fixed == op' = "update" /\ ret'

\* the key/value and section lines of a file
KeyValues(lines) == SelectSeq(lines, LAMBDA l : l.k # "comment")

\* lines with the value of the Icon key of the Desktop Entry section replaced
WithIcon(lines, icon) ==
    [i \in 1..Len(lines) |->
        IF i \in SectionSpan(lines, "Desktop Entry") /\ lines[i].k = "option"
           /\ lines[i].a = "Icon"
        THEN OptLine("Icon", icon)
        ELSE lines[i]]

\* C1: a successful fix changes only the value of the Icon key of the Desktop
\* Entry section; every other key (with its spelling and letter case), every
\* value and every other section of the written file are as before the rewrite.
C1_OnlyIconValueChanges ==
    [][Fixed =>
          KeyValues(files'[TargetOf(arg'.file_path, writable)])
              = KeyValues(WithIcon(files[arg'.file_path], arg'.icon))]_vars

\* C2: a backup file, once it exists, is never removed or rewritten; a
\* successful fix leaves a backup at <target>.backup; the only backup a fix
\* creates is <target>.backup, holding the file as it was before the rewrite.
C2_BackupMadeOnceNeverOverwritten ==
    [][/\ \A p \in fsPaths : IsBackup(p) => p \in fsPaths' /\ files'[p] = files[p]
       /\ Fixed => BackupOf(TargetOf(arg'.file_path, writable)) \in fsPaths'
       /\ \A p \in fsPaths' \ fsPaths :
             IsBackup(p) => /\ Updated
                            /\ p = BackupOf(TargetOf(arg'.file_path, writable))
                            /\ files'[p] = files[arg'.file_path]]_vars

\* a second run fixed an entry in place and the backup of the first run, with
\* the first icon, is still there
C2_Witness ==
    /\ runs = 2 /\ op = "update" /\ ret
    /\ arg.file_path \in writable
    /\ BackupOf(arg.file_path) \in fsPaths
    /\ FieldOf(files[BackupOf(arg.file_path)], "Icon", "") # arg.icon
    /\ FieldOf(files[arg.file_path], "Icon", "") = arg.icon

FieldNames == {"Type", "Name", "Exec", "Categories", "Comment", "NoDisplay",
               "X-GNOME-UsesNotifications"}

\* C3: a descriptor file that is not writable is never written; a fix of a
\* non-writable origin touches nothing but the directory of the user's
\* applications, the copy <user applications directory>/<origin base name>
\* and the backup of that copy, and when it succeeds the copy holds the
\* origin's entries with the new icon.
C3_SystemFilesNeverWritten ==
    [][/\ \A p \in DOMAIN files :
             p \in fsPaths /\ p \notin writable => p \in fsPaths' /\ files'[p] = files[p]
       /\ Updated /\ arg'.file_path \notin writable =>
             LET origin == arg'.file_path
                 copy   == OverrideOf(origin)
             IN  /\ \A p \in (fsPaths \cup fsPaths') \ {user_apps_dir, copy, BackupOf(copy)} :
                       /\ p \in fsPaths /\ p \in fsPaths'
                       /\ p \in DOMAIN files => files'[p] = files[p]
                 /\ ret' =>
                       /\ copy \in fsPaths' /\ copy # origin
                       /\ FieldOf(files'[copy], "Icon", "") = arg'.icon
                       /\ \A k \in FieldNames :
                             FieldOf(files'[copy], k, "") = FieldOf(files[origin], k, "")]_vars

\* a non-writable origin was fixed through a copy that now differs from it
C3_Witness ==
    /\ op = "update" /\ ret
    /\ arg.file_path \in fsPaths /\ arg.file_path \notin writable
    /\ OverrideOf(arg.file_path) \in fsPaths
    /\ BackupOf(OverrideOf(arg.file_path)) \in fsPaths
    /\ FieldOf(files[OverrideOf(arg.file_path)], "Icon", "") = arg.icon
    /\ FieldOf(files[arg.file_path], "Icon", "") # arg.icon

\* C9: for an entry whose raw icon name probes successfully the suggestion
\* list is that single name, and the fix step makes no copy, no backup and no
\* rewrite for it.
C9_AlreadyMatchingIsNoOp ==
    [][/\ scan'.pc = "done" =>
             \A i \in 1..Len(scan'.non_papirus_apps) :
                LET e == scan'.non_papirus_apps[i]
                IN  _find_papirus_icon(e.app_info.icon) # None
                       => e.papirus_alternatives = <<e.app_info.icon>>
       /\ Updated /\ _find_papirus_icon(arg'.old_icon) # None => files' = files]_vars

\* the entries of the batch that have at least one suggestion
Suggested == {j \in 1..Len(scan.non_papirus_apps) :
                 scan.non_papirus_apps[j].papirus_alternatives # <<>>}

Outcomes(f) == f.fixed_count + f.failed_count

\* C11: in automatic mode every step of the batch takes the next entry of the
\* list; an entry with a suggestion is attempted and gets exactly one outcome,
\* fixed when the update returned True and failed otherwise, whatever happened
\* to the entries before it; an entry without suggestion gets no outcome and
\* no file is touched; when the batch ends, fixed_count + failed_count is the
\* number of entries with a suggestion.
C11_EveryEntryGetsOneOutcome ==
    [][fix.pc = "loop" /\ fix.auto_apply =>
          IF fix.i <= Len(scan.non_papirus_apps)
          THEN /\ fix'.pc = "loop" /\ fix'.i = fix.i + 1
               /\ fix.i \in Suggested =>
                     /\ op' = "update"
                     /\ arg'.file_path = scan.non_papirus_apps[fix.i].app_info.file_path
                     /\ Outcomes(fix') = Outcomes(fix) + 1
                     /\ fix'.fixed_count = fix.fixed_count + (IF ret' THEN 1 ELSE 0)
               /\ fix.i \notin Suggested =>
                     /\ op' = "no_alternative"
                     /\ fix'.fixed_count = fix.fixed_count
                     /\ fix'.failed_count = fix.failed_count
                     /\ UNCHANGED disk
          ELSE /\ fix'.pc = "done"
               /\ Outcomes(fix') = Cardinality(Suggested)
               /\ UNCHANGED disk]_vars

\* an automatic batch ended after its first entry failed, its second entry
\* was fixed (the last update returned True) and its third entry, which has no
\* suggestion, was passed over
C11_Witness ==
    /\ fix.pc = "done" /\ fix.auto_apply
    /\ fix.fixed_count = 1 /\ fix.failed_count = 1
    /\ ret /\ arg.file_path = UserA
    /\ Len(scan.non_papirus_apps) = 3 /\ Suggested = {1, 2}

-----------------------------------------------------------------------------
(* Properties of the generic suggestions                                   *)

Range(q) == {q[i] : i \in 1..Len(q)}

\* q lists the elements of S once each, by increasing rank
ListsInOrder(q, S, rank(_)) ==
    /\ Range(q) = S
    /\ \A i \in 1..Len(q), j \in 1..Len(q) : i < j => rank(q[i]) < rank(q[j])

CategoryHits(app) ==
    {i \in 1..Len(category_mapping) :
        Contains(lower(app.categories), category_mapping[i][1])}

KeywordHits(app) ==
    {i \in 1..Len(app_type_patterns) :
        \E kw \in app_type_patterns[i][2] :
            Contains(lower(app.name \o " " \o app.comment \o " " \o app.exec), kw)}

TypesOf(app) ==
    {category_mapping[i][2] : i \in CategoryHits(app)}
        \cup {app_type_patterns[i][1] : i \in KeywordHits(app)}

Least(S) == CHOOSE x \in S : \A y \in S : x <= y

\* category matches come first, in the order of the category table; keyword
\* matches follow, in the order of the keyword table
TypeRank(app, t) ==
    LET byCat == {i \in CategoryHits(app) : category_mapping[i][2] = t}
        byKw  == {i \in KeywordHits(app) : app_type_patterns[i][1] = t}
    IN  IF byCat # {} THEN Least(byCat) ELSE 100 + Least(byKw)

InTheme(name) == \E t \in Places : PlaceFile(name, t) \in fsPaths

GenericsOf(app) ==
    {g \in UNION {Range(generic_icon_mapping(t)) : t \in TypesOf(app)} : InTheme(g)}

\* the first place of g in the lists of the detected types
GenericRank(app, g) ==
    Least({TypeRank(app, x[1]) * 10 + x[2] :
              x \in {y \in TypesOf(app) \X (1..3) : generic_icon_mapping(y[1])[y[2]] = g}})

NameVariations(icon_name) == {icon_name} \cup Range(variations(icon_name))

NoVariationProbes(app) ==
    \A v \in NameVariations(app.icon) : _find_papirus_icon(v) = None

\* C13: the detected types are the types matched from the category field
\* followed by the types matched by keywords in name, comment and exec, each
\* once; when no name variation of the icon probes successfully, suggest
\* returns exactly the generic icon names of the detected types that exist in
\* the theme, each once, type by type in detection order and within a type in
\* the declared order of its list; when a variation probes successfully, only
\* name variations are returned.
C13_GenericFallbackInDeclaredOrder ==
    /\ op = "detect" =>
          ListsInOrder(ret, TypesOf(arg), LAMBDA t : TypeRank(arg, t))
    /\ op = "suggest" =>
          IF NoVariationProbes(arg)
          THEN ListsInOrder(ret, GenericsOf(arg), LAMBDA g : GenericRank(arg, g))
          ELSE ret # <<>> /\ Range(ret) \subseteq NameVariations(arg.icon)

\* the descriptor with icon custom-app-xyz and category Development; got two
\* icons of the development list, in the order of that list
C13_Witness ==
    /\ op = "suggest" /\ arg = CustomApp
    /\ NoVariationProbes(arg)
    /\ ret = <<"applications-development", "utilities-terminal">>

-----------------------------------------------------------------------------
(* Properties of the prompts and of the user's own files                   *)

DiskChanged == <<fsPaths, files, writable>>' # <<fsPaths, files, writable>>

\* C14: in interactive mode a file is copied, backed up or rewritten only in
\* the loop that follows an affirmative answer to the batch prompt, and only
\* for an entry whose own prompt was answered y or yes; in automatic mode
\* every entry with a suggestion proceeds without an answer.
C14_ChangesOnlyAfterYes ==
    [][/\ DiskChanged =>
             /\ fix.pc = "loop"
             /\ fix.auto_apply \/ arg'.answer \in {"y", "yes"}
       /\ fix.pc = "loop" /\ fix.auto_apply /\ fix.i \in Suggested =>
             Updated /\ arg'.answer = "--auto"]_vars

\* every line of b is the line of a, but for the value of the icon key
SameApartFromIcon(a, b) ==
    /\ Len(a) = Len(b)
    /\ \A i \in 1..Len(a) :
          \/ a[i] = b[i]
          \/ /\ a[i].k = "option" /\ b[i].k = "option"
             /\ lower(a[i].a) = "icon" /\ lower(b[i].a) = "icon"

\* C15: when the fix of a non-writable origin finds a file of the same base
\* name in the user's applications directory, the previous content of that
\* file is afterwards still there, unchanged apart from the icon key, or is
\* the content of its .backup sibling; and a backup that a fix creates for a
\* target that existed holds the content the target had before the fix.
C15_UserFileRecoverable ==
    [][Updated /\ arg'.file_path \in fsPaths /\ arg'.file_path \notin writable =>
          LET origin == arg'.file_path
              own    == OverrideOf(origin)
          IN  /\ own # origin /\ own \in fsPaths =>
                    \/ own \in fsPaths' /\ SameApartFromIcon(files[own], files'[own])
                    \/ /\ BackupOf(own) \in fsPaths'
                       /\ files'[BackupOf(own)] = files[own]
              /\ own \in fsPaths /\ BackupOf(own) \in fsPaths' \ fsPaths =>
                    files'[BackupOf(own)] = files[own]]_vars

=============================================================================
